---- MODULE Spec2Model ----
(***************************************************************************)
(* Model of app.py, the Capsule Vision Challenge sanity checker: one run   *)
(* of main() in a selected mode over one uploaded spreadsheet and the      *)
(* reference artifact of that mode.  Every st.error / st.success call is   *)
(* an entry of `messages`; every raised exception follows the try/except   *)
(* of the mode function, or ends the run when nothing catches it.          *)
(***************************************************************************)
EXTENDS Integers, Sequences, FiniteSets, TLC

\* ------------------------------------------------------------------ bounds
\* identifiers (image names) of the small tables are 1..MaxId
MaxId == 2
\* the small tables have at most MaxRows rows
MaxRows == 2
\* identifiers of the long, well-formed tables are 1..MaxCmpId
MaxCmpId == 23
\* the reference of a long table is 1..n with n <= MaxCmpRef
MaxCmpRef == 12

\* ------------------------------------------------------- module constants
VALID_CLASSES ==
    << "Angioectasia", "Bleeding", "Erosion", "Erythema", "Foreign Body",
       "Lymphangiectasia", "Normal", "Polyp", "Ulcer", "Worms" >>

EXPECTED_COLUMNS == << "image_path" >> \o VALID_CLASSES \o << "predicted_class" >>

\* the value pandas gives an empty cell; as an identifier it is not a str
NaN == 0

\* --------------------------------------------------------------- helpers
Range(s) == { s[i] : i \in DOMAIN s }

Without(s, c) == SelectSeq(s, LAMBDA x : x # c)

Rename(s, a, b) == [ i \in DOMAIN s |-> IF s[i] = a THEN b ELSE s[i] ]

Swap(s, i, j) ==
    [ k \in DOMAIN s |-> IF k = i THEN s[j] ELSE IF k = j THEN s[i] ELSE s[k] ]

\* ---------------------------------------------------------------- inputs
\* A row of the uploaded sheet: its image_path cell (NaN when empty), its
\* predicted_class cell, and whether one of its probability cells is empty.
Rows ==
    [ image_path : 0 .. MaxId, predicted_class : { "Ulcer", "Tumor" },
      null_prob : BOOLEAN ]

\* Header rows an upload may carry: the expected one, one without the
\* identifier column, one without predicted_class, one with an extra column,
\* one in another order, one with the identifier column under another name,
\* one without a class column.
UploadedColumns ==
    { EXPECTED_COLUMNS,
      Without(EXPECTED_COLUMNS, "image_path"),
      Without(EXPECTED_COLUMNS, "predicted_class"),
      Append(EXPECTED_COLUMNS, "Dataset"),
      Swap(EXPECTED_COLUMNS, 2, 3),
      Rename(EXPECTED_COLUMNS, "image_path", "file_name"),
      Without(EXPECTED_COLUMNS, "Worms") }

NoTable == [ columns |-> << >>, rows |-> << >> ]

SmallTables ==
    { [ columns |-> c, rows |-> r ] :
        c \in UploadedColumns,
        r \in UNION { [ 1 .. n -> Rows ] : n \in 0 .. MaxRows } }

\* The well-formed sheet whose identifiers are lo .. hi.
RangeTable(lo, hi) ==
    [ columns |-> EXPECTED_COLUMNS,
      rows |-> [ i \in 1 .. (hi - lo + 1) |->
                   [ image_path |-> lo + i - 1, predicted_class |-> "Ulcer",
                     null_prob |-> FALSE ] ] ]

LongTables ==
    { RangeTable(lo, hi) : lo \in 1 .. MaxCmpId, hi \in 0 .. MaxCmpId }

\* The reference artifact of a mode: file_names_list.csv (one file_name
\* column) in Test mode, a ground-truth sheet otherwise.  Its identifiers are
\* strings and unique, so a set stands for the column.
ReferenceColumns(m) ==
    IF m = "Test" THEN { << "file_name" >> }
    ELSE { EXPECTED_COLUMNS, Without(EXPECTED_COLUMNS, "predicted_class") }

NoReference == [ columns |-> << >>, ids |-> {} ]

SmallReferences(m) ==
    { [ columns |-> c, ids |-> s ] : c \in ReferenceColumns(m), s \in SUBSET (1 .. MaxId) }

LongReferences(m) ==
    { [ columns |-> IF m = "Test" THEN << "file_name" >> ELSE EXPECTED_COLUMNS,
        ids |-> 1 .. n ] : n \in 0 .. MaxCmpRef }

Modes == { "Test", "Training", "Validation" }

\* ----------------------------------------------------------------- state
VARIABLES
    mode,               \* st.selectbox("Select Mode", ...)
    uploaded_file,      \* "None", "malformed" (read_excel raises) or "xlsx"
    table,              \* the sheet inside the uploaded file
    ref_file,           \* "ok", "malformed" (the read raises) or "missing"
    reference,          \* the content of the reference artifact
    df_bound,           \* the local df is bound
    ref_bound,          \* the local reference_df / training_df / validation_df is bound
    passed_all_checks,
    messages,           \* the st.error / st.success calls, in order
    ran,                \* the checks whose condition has been evaluated
    pc

vars ==
    << mode, uploaded_file, table, ref_file, reference, df_bound, ref_bound,
       passed_all_checks, messages, ran, pc >>

inputs == << mode, uploaded_file, table, ref_file, reference >>

\* ------------------------------------------------------------- messages
Msg(k, c, i, n) == [ kind |-> k, cat |-> c, ids |-> i, cols |-> n ]

Error(c) == Msg("error", c, {}, {})

Success == Msg("success", "passed", {}, {})

\* ------------------------------------------------------------------ Init
InitState ==
    /\ df_bound = FALSE
    /\ ref_bound = FALSE
    /\ passed_all_checks = TRUE
    /\ messages = << >>
    /\ ran = {}
    /\ pc = "main"

InitUpload(tables) ==
    \/ /\ uploaded_file \in { "None", "malformed" }
       /\ table = NoTable
    \/ /\ uploaded_file = "xlsx"
       /\ table \in tables

InitReference(refs) ==
    \/ /\ ref_file \in { "malformed", "missing" }
       /\ reference = NoReference
    \/ /\ ref_file = "ok"
       /\ reference \in refs

Init ==
    /\ mode \in Modes
    /\ \/ InitUpload(SmallTables) /\ InitReference(SmallReferences(mode))
       \/ /\ uploaded_file = "xlsx"
          /\ table \in LongTables
          /\ ref_file = "ok"
          /\ reference \in LongReferences(mode)
    /\ InitState

\* ------------------------------------------------------ pure operators
HasColumn(t, c) == c \in Range(t.columns)

predicted_images(t) == { t.rows[i].image_path : i \in DOMAIN t.rows }

missing_images(t, r) == r.ids \ predicted_images(t)

extra_images(t, r) == predicted_images(t) \ r.ids

\* the threshold off by one: len(...) >= 10
TooManyFromTen(s) == Cardinality(s) >= 10

\* len(...) > 10
TooMany(s) == Cardinality(s) > 10

\* ', '.join(...) raises TypeError on an item that is not a str
Joinable(s) == NaN \notin s

MissingReport(miss) ==
    IF TooMany(miss) THEN << Error("too_many_missing_images") >>
    ELSE IF miss # {} THEN << Msg("error", "missing_images", miss, {}) >>
    ELSE << >>

ExtraReport(extra) ==
    IF TooMany(extra) THEN << Error("too_many_extra_images") >>
    ELSE IF extra # {} THEN << Msg("error", "extra_images", extra, {}) >>
    ELSE << >>

missing_columns(t) == SelectSeq(EXPECTED_COLUMNS, LAMBDA col : ~HasColumn(t, col))

\* the columns compared by position instead of by membership
extra_columns_positional(t) ==
    SelectSeq(t.columns, LAMBDA col :
        \A i \in DOMAIN EXPECTED_COLUMNS :
            EXPECTED_COLUMNS[i] = col => (i \notin DOMAIN t.columns \/ t.columns[i] # col))

extra_columns(t) == SelectSeq(t.columns, LAMBDA col : col \notin Range(EXPECTED_COLUMNS))

ColumnsReport(t) ==
    (IF missing_columns(t) # << >>
       THEN << Msg("error", "missing_columns", {}, Range(missing_columns(t))) >>
       ELSE << >>)
    \o
    (IF extra_columns(t) # << >>
       THEN << Msg("error", "extra_columns", {}, Range(extra_columns(t))) >>
       ELSE << >>)

\* df.isnull().values.any()
AnyNull(t) ==
    \E i \in DOMAIN t.rows : t.rows[i].image_path = NaN \/ t.rows[i].null_prob

\* df[~df["predicted_class"].isin(VALID_CLASSES)]
invalid_classes(t) ==
    SelectSeq(t.rows, LAMBDA row : row.predicted_class \notin Range(VALID_CLASSES))

\* df.shape
shape(columns, nrows) == << nrows, Len(columns) >>

\* ---------------------------------------------------------------- main()
main ==
    /\ pc = "main"
    /\ pc' = "file_uploader"
    /\ UNCHANGED << inputs, df_bound, ref_bound, passed_all_checks, messages, ran >>

\* ----------------------------------------------------------- test_mode()
\* except Exception as e: st.error(f"Error during processing: {e}")
except_test(emitted) ==
    /\ messages' = messages \o emitted \o << Error("exception") >>
    /\ pc' = "done"

test_no_file ==
    /\ pc = "file_uploader"
    /\ mode = "Test"
    /\ uploaded_file = "None"
    /\ pc' = "done"
    /\ UNCHANGED << inputs, df_bound, ref_bound, passed_all_checks, messages, ran >>

test_read_excel ==
    /\ pc = "file_uploader"
    /\ mode = "Test"
    /\ uploaded_file # "None"
    /\ IF uploaded_file = "xlsx"
         THEN /\ df_bound' = TRUE
              /\ pc' = "read_reference"
              /\ UNCHANGED messages
         ELSE /\ except_test(<< >>)
              /\ UNCHANGED df_bound
    /\ UNCHANGED << inputs, ref_bound, passed_all_checks, ran >>

test_read_csv ==
    /\ pc = "read_reference"
    /\ mode = "Test"
    /\ IF ref_file = "ok"
         THEN /\ ref_bound' = TRUE
              /\ pc' = "check_images"
              /\ UNCHANGED messages
         ELSE /\ except_test(<< >>)
              /\ UNCHANGED ref_bound
    /\ UNCHANGED << inputs, df_bound, passed_all_checks, ran >>

\* ----------------------------------------------------------- check_file()
check_file_images ==
    /\ pc = "check_images"
    /\ IF ~HasColumn(table, "image_path")
         THEN \* df["image_path"] raises KeyError
              /\ except_test(<< >>)
              /\ UNCHANGED << passed_all_checks, ran >>
         ELSE LET miss == missing_images(table, reference)
                  extra == extra_images(table, reference)
              IN  IF ~TooMany(extra) /\ extra # {} /\ ~Joinable(extra)
                    THEN \* ', '.join(extra_images) raises TypeError
                         /\ except_test(MissingReport(miss))
                         /\ passed_all_checks' = (miss = {})
                         /\ UNCHANGED ran
                    ELSE /\ messages' = messages \o MissingReport(miss) \o ExtraReport(extra)
                         /\ passed_all_checks' = (miss = {} /\ extra = {})
                         /\ ran' = ran \cup { "images" }
                         /\ pc' = "check_columns"
    /\ UNCHANGED << inputs, df_bound, ref_bound >>

check_file_columns ==
    /\ pc = "check_columns"
    /\ messages' = messages \o ColumnsReport(table)
    /\ passed_all_checks' = (passed_all_checks /\ ColumnsReport(table) = << >>)
    /\ ran' = ran \cup { "columns" }
    /\ pc' = "check_nulls"
    /\ UNCHANGED << inputs, df_bound, ref_bound >>

\* the null check without its passed_all_checks = False
check_file_nulls_keeps_flag ==
    /\ pc = "check_nulls"
    /\ messages' = IF AnyNull(table) THEN Append(messages, Error("missing_values")) ELSE messages
    /\ ran' = ran \cup { "nulls" }
    /\ pc' = "check_classes"
    /\ UNCHANGED << inputs, df_bound, ref_bound, passed_all_checks >>

check_file_nulls ==
    /\ pc = "check_nulls"
    /\ IF AnyNull(table)
         THEN /\ messages' = Append(messages, Error("missing_values"))
              /\ passed_all_checks' = FALSE
         ELSE UNCHANGED << messages, passed_all_checks >>
    /\ ran' = ran \cup { "nulls" }
    /\ pc' = "check_classes"
    /\ UNCHANGED << inputs, df_bound, ref_bound >>

check_file_classes ==
    /\ pc = "check_classes"
    /\ IF ~HasColumn(table, "predicted_class")
         THEN \* df["predicted_class"] raises KeyError
              /\ except_test(<< >>)
              /\ UNCHANGED << passed_all_checks, ran >>
         ELSE /\ IF invalid_classes(table) # << >>
                   THEN /\ messages' = Append(messages, Error("invalid_predicted_class"))
                        /\ passed_all_checks' = FALSE
                   ELSE UNCHANGED << messages, passed_all_checks >>
              /\ ran' = ran \cup { "classes" }
              /\ pc' = "verdict"
    /\ UNCHANGED << inputs, df_bound, ref_bound >>

check_file_verdict ==
    /\ pc = "verdict"
    /\ messages' = Append(messages, IF passed_all_checks THEN Success ELSE Error("failed"))
    /\ pc' = "done"
    /\ UNCHANGED << inputs, df_bound, ref_bound, passed_all_checks, ran >>

\* ---------------------------------- training_mode() / validation_mode()
\* the handler without its passed_all_checks = False
except_validation_keeps_flag ==
    /\ messages' = Append(messages, Error("exception"))
    /\ UNCHANGED passed_all_checks
    /\ pc' = "show_verdict"

\* except Exception as e: st.error(f"Error during validation: {e}");
\* passed_all_checks = False
except_validation ==
    /\ messages' = Append(messages, Error("exception"))
    /\ passed_all_checks' = FALSE
    /\ pc' = "show_verdict"

validation_no_file ==
    /\ pc = "file_uploader"
    /\ mode # "Test"
    /\ uploaded_file = "None"
    /\ pc' = "download"
    /\ UNCHANGED << inputs, df_bound, ref_bound, passed_all_checks, messages, ran >>

validation_read_excel ==
    /\ pc = "file_uploader"
    /\ mode # "Test"
    /\ uploaded_file # "None"
    /\ IF uploaded_file = "xlsx"
         THEN /\ df_bound' = TRUE
              /\ pc' = "read_reference"
              /\ UNCHANGED << messages, passed_all_checks >>
         ELSE /\ except_validation
              /\ UNCHANGED df_bound
    /\ UNCHANGED << inputs, ref_bound, ran >>

validation_read_reference ==
    /\ pc = "read_reference"
    /\ mode # "Test"
    /\ IF ref_file = "ok"
         THEN /\ ref_bound' = TRUE
              /\ pc' = "check_shape"
              /\ UNCHANGED << messages, passed_all_checks >>
         ELSE /\ except_validation
              /\ UNCHANGED ref_bound
    /\ UNCHANGED << inputs, df_bound, ran >>

\* -------------------------------------- check_file_dimensions_and_columns()
check_shape ==
    /\ pc = "check_shape"
    /\ IF shape(table.columns, Len(table.rows))
            # shape(reference.columns, Cardinality(reference.ids))
         THEN /\ messages' = Append(messages, Error("shape"))
              /\ passed_all_checks' = FALSE
         ELSE UNCHANGED << messages, passed_all_checks >>
    /\ ran' = ran \cup { "shape" }
    /\ pc' = "check_column_names"
    /\ UNCHANGED << inputs, df_bound, ref_bound >>

check_column_names ==
    /\ pc = "check_column_names"
    /\ IF Len(table.columns) # Len(reference.columns)
         THEN \* df.columns == reference_df.columns raises ValueError
              /\ except_validation
              /\ UNCHANGED ran
         ELSE /\ IF table.columns # reference.columns
                   THEN /\ messages' = Append(messages, Error("column_names"))
                        /\ passed_all_checks' = FALSE
                   ELSE UNCHANGED << messages, passed_all_checks >>
              /\ ran' = ran \cup { "column_names" }
              /\ pc' = "check_image_path"
    /\ UNCHANGED << inputs, df_bound, ref_bound >>

check_image_path ==
    /\ pc = "check_image_path"
    /\ IF ~HasColumn(table, "image_path")
         THEN \* df["image_path"] raises KeyError
              /\ except_validation
              /\ UNCHANGED ran
         ELSE /\ IF predicted_images(table) # reference.ids
                   THEN /\ messages' = Append(messages, Error("image_path"))
                        /\ passed_all_checks' = FALSE
                   ELSE UNCHANGED << messages, passed_all_checks >>
              /\ ran' = ran \cup { "image_path" }
              /\ pc' = "show_verdict"
    /\ UNCHANGED << inputs, df_bound, ref_bound >>

validation_verdict ==
    /\ pc = "show_verdict"
    /\ messages' = Append(messages, IF passed_all_checks THEN Success ELSE Error("failed"))
    /\ pc' = "cleanup"
    /\ UNCHANGED << inputs, df_bound, ref_bound, passed_all_checks, ran >>

\* del df, training_df, uploaded_file: deleting an unbound local raises
\* UnboundLocalError, which nothing catches
validation_cleanup ==
    /\ pc = "cleanup"
    /\ df_bound' = FALSE
    /\ ref_bound' = IF df_bound THEN FALSE ELSE ref_bound
    /\ pc' = IF df_bound /\ ref_bound THEN "download" ELSE "crashed"
    /\ UNCHANGED << inputs, passed_all_checks, messages, ran >>

\* with open(TRAINING_FILE_PATH, "rb") as file: st.download_button(...)
validation_download ==
    /\ pc = "download"
    /\ pc' = IF ref_file = "missing" THEN "crashed" ELSE "done"
    /\ UNCHANGED << inputs, df_bound, ref_bound, passed_all_checks, messages, ran >>

\* ------------------------------------------------------------------ Next
Next ==
    \/ main
    \/ test_no_file
    \/ test_read_excel
    \/ test_read_csv
    \/ check_file_images
    \/ check_file_columns
    \/ check_file_nulls
    \/ check_file_classes
    \/ check_file_verdict
    \/ validation_no_file
    \/ validation_read_excel
    \/ validation_read_reference
    \/ check_shape
    \/ check_column_names
    \/ check_image_path
    \/ validation_verdict
    \/ validation_cleanup
    \/ validation_download

Spec == Init /\ [][Next]_vars

TypeOK ==
    /\ mode \in Modes
    /\ pc \in { "main", "file_uploader", "read_reference", "check_images",
                "check_columns", "check_nulls", "check_classes", "verdict",
                "check_shape", "check_column_names", "check_image_path",
                "show_verdict", "cleanup", "download", "done", "crashed" }
    /\ passed_all_checks \in BOOLEAN
    /\ df_bound \in BOOLEAN
    /\ ref_bound \in BOOLEAN

\* ============================================================== claims
Terminal == pc \in { "done", "crashed" }

BothReadable == uploaded_file = "xlsx" /\ ref_file = "ok"

ReadFailure ==
    uploaded_file = "malformed" \/ (uploaded_file = "xlsx" /\ ref_file # "ok")

Fatal == Error("exception")

IsVerdict(m) == m.cat \in { "passed", "failed" }

\* the report without its verdict line
Findings == SelectSeq(messages, LAMBDA m : ~IsVerdict(m))

OfCat(c) == SelectSeq(messages, LAMBDA m : m.cat = c)

Applicable ==
    IF mode = "Test" THEN { "images", "columns", "nulls", "classes" }
    ELSE { "shape", "column_names", "image_path" }

\* two rows carry the same (non-empty) identifier
HasDuplicate(t) ==
    \E i, j \in DOMAIN t.rows :
        i < j /\ t.rows[i].image_path # NaN /\ t.rows[i].image_path = t.rows[j].image_path

\* the identifiers of the rows that repeat an earlier row's identifier
Repeats(t) ==
    { t.rows[j].image_path : j \in { k \in DOMAIN t.rows :
        \E i \in 1 .. (k - 1) : t.rows[i].image_path = t.rows[k].image_path } }

OutOfVocabulary(t) ==
    { i \in DOMAIN t.rows : t.rows[i].predicted_class \notin Range(VALID_CLASSES) }

NoNullCell(t) ==
    \A i \in DOMAIN t.rows : t.rows[i].image_path # NaN /\ ~t.rows[i].null_prob

SchemaColumns(t) == Range(t.columns) = Range(EXPECTED_COLUMNS)

\* everything C7 asks of a submission but the labels
ValidButLabels ==
    /\ BothReadable
    /\ SchemaColumns(table)
    /\ NoNullCell(table)
    /\ ~HasDuplicate(table)
    /\ predicted_images(table) = reference.ids

\* C1: in every mode, a run over an uploaded table without the image_path
\* column ends with exactly one finding, the fatal one, and no check has run.
C1_MissingIdentifierSingleFatal ==
    (Terminal /\ BothReadable /\ ~HasColumn(table, "image_path"))
        => (messages = << Fatal >> /\ ran = {})

C3_AllChecksRun ==
    (Terminal /\ BothReadable /\ HasColumn(table, "image_path") /\ NoNullCell(table))
        => ran = Applicable

ListingPolicy(s, listed, generic) ==
    /\ Cardinality(s) \in 1 .. 10 =>
         OfCat(listed) = << Msg("error", listed, s, {}) >> /\ OfCat(generic) = << >>
    /\ Cardinality(s) >= 11 =>
         OfCat(listed) = << >> /\ OfCat(generic) = << Error(generic) >>
    /\ s = {} => OfCat(listed) = << >> /\ OfCat(generic) = << >>

C5_VerdictIffNoFinding ==
    /\ ~(Success \in Range(messages) /\ \E m \in Range(messages) : m.kind = "error")
    /\ (Terminal /\ uploaded_file # "None") =>
          (Success \in Range(messages) <=> Findings = << >>)

C5_Witness ==
    /\ pc = "done"
    /\ mode = "Validation"
    /\ table.rows # << >>
    /\ messages = << Success >>

\* C6: a run over an uploaded table whose image_path column repeats a value
\* reports the repeated identifiers in a duplicate finding and does not pass
\* (stated for the case the claim singles out: the distinct identifiers are
\* the reference set and the table is valid in every other respect).
C6_DuplicatesReported ==
    (Terminal /\ BothReadable /\ SchemaColumns(table) /\ NoNullCell(table)
        /\ predicted_images(table) = reference.ids /\ OutOfVocabulary(table) = {}
        /\ HasDuplicate(table))
        => /\ \E m \in Range(messages) :
                m.cat = "duplicate_identifiers" /\ m.ids = Repeats(table)
           /\ Success \notin Range(messages)

\* C7: in Test mode a submission with exactly the schema's columns, no null
\* cell, unique identifiers equal to the reference set and labels of the
\* vocabulary passes with no finding.
C7_ValidSubmissionPasses ==
    (pc = "done" /\ mode = "Test" /\ ValidButLabels /\ OutOfVocabulary(table) = {})
        => messages = << Success >>

C7_Witness ==
    /\ pc = "done"
    /\ mode = "Test"
    /\ ValidButLabels
    /\ OutOfVocabulary(table) = {}
    /\ Len(table.rows) = 2
    /\ table.columns # EXPECTED_COLUMNS

\* C8: in Test mode an otherwise valid table with exactly one row whose
\* predicted_class is outside the vocabulary gets exactly one finding, of the
\* categorical-validity category, naming that row's identifier.
C8_InvalidLabelNamesRow ==
    (pc = "done" /\ mode = "Test" /\ ValidButLabels
        /\ Cardinality(OutOfVocabulary(table)) = 1)
        => Findings = << Msg("error", "invalid_predicted_class",
                             { table.rows[i].image_path : i \in OutOfVocabulary(table) },
                             {}) >>

\* what check_file reports of the content and of the identifier sets
ContentFindings(t, r) ==
    MissingReport(missing_images(t, r)) \o ExtraReport(extra_images(t, r))
    \o (IF AnyNull(t) THEN << Error("missing_values") >> ELSE << >>)
    \o (IF OutOfVocabulary(t) # {} THEN << Error("invalid_predicted_class") >> ELSE << >>)

IsContent(m) ==
    m.cat \in { "missing_images", "too_many_missing_images", "extra_images",
                "too_many_extra_images", "image_path", "missing_values",
                "invalid_predicted_class" }

\* C9: in every mode a run that raised nothing reports the same null,
\* label and identifier-set findings for the same table and reference.
C9_ContentChecksModeIndependent ==
    (pc = "done" /\ BothReadable /\ HasColumn(table, "predicted_class")
        /\ Fatal \notin Range(messages))
        => SelectSeq(messages, IsContent) = ContentFindings(table, reference)

\* C10: in Training and Validation mode a run with an uploaded file never
\* ends in an unhandled error.
C10_NoUnhandledError ==
    (mode # "Test" /\ uploaded_file # "None") => pc # "crashed"

====
